---- MODULE Spec2Model ----
(***************************************************************************)
(* Model of djchat/server/views.py: ServerListViewSet.list, the read       *)
(* endpoint that narrows the collection of Server records by the query     *)
(* parameters category, qty, by_user, by_serverid and with_num_members.    *)
(*                                                                         *)
(* The handler is one atomic action (List).  The framework builds a new    *)
(* ServerListViewSet instance for each request, so the assignments         *)
(* "self.queryset = ..." bind an attribute of that instance; what the      *)
(* instances share is the QuerySet object bound to the class attribute     *)
(* "queryset" (views.py line 54) and the result cache that object fills    *)
(* when it is iterated.                                                    *)
(***************************************************************************)
EXTENDS Integers, Sequences, FiniteSets, TLC

VARIABLES db, cache, pc, request, response, ran

vars == <<db, cache, pc, request, response, ran>>

\* Largest number of Server records the store holds (ids are 1..MaxServers).
MaxServers == 3

-----------------------------------------------------------------------------
(* Query parameters.  request.query_params.get(name, None) gives None for  *)
(* an absent parameter and the text otherwise; the empty text is present.  *)
(* A text is a sequence of tokens: the characters of a number, or a word.  *)

Absent == [present |-> FALSE, text |-> <<>>]

Param(t) == [present |-> TRUE, text |-> t]

\* Python truthiness of a parameter value: None and "" are falsy.
Truthy(p) == p.present /\ p.text # <<>>

\* p == "literal" for a parameter read with .get(name).
IsLiteral(p, lit) == p.present /\ p.text = lit

DigitChars == <<"0", "1", "2", "3", "4", "5", "6", "7", "8", "9">>

IsDigit(c) == \E i \in DOMAIN DigitChars : DigitChars[i] = c

DigitVal(c) == (CHOOSE i \in DOMAIN DigitChars : DigitChars[i] = c) - 1

RECURSIVE DigitsVal(_)
DigitsVal(t) ==
    IF t = <<>> THEN 0
    ELSE 10 * DigitsVal(SubSeq(t, 1, Len(t) - 1)) + DigitVal(t[Len(t)])

AllDigits(t) == t # <<>> /\ \A i \in DOMAIN t : IsDigit(t[i])

\* int(text): an optional sign followed by decimal digits, else ValueError.
IntParses(t) ==
    IF t # <<>> /\ t[1] \in {"-", "+"} THEN AllDigits(Tail(t)) ELSE AllDigits(t)

IntValue(t) ==
    IF t[1] = "-" THEN 0 - DigitsVal(Tail(t))
    ELSE IF t[1] = "+" THEN DigitsVal(Tail(t))
    ELSE DigitsVal(t)

-----------------------------------------------------------------------------
(* The Server records and the requesting identities.                       *)

Users == {1, 2}

CategoryOf(i) == IF i % 2 = 0 THEN "Gaming" ELSE "Music"

MembersOf(i) == {u \in Users : u < i}

Server(i) ==
    [id |-> i, category |-> CategoryOf(i), member |-> MembersOf(i),
     annotated |-> FALSE, num_members |-> 0]

Anonymous == [is_authenticated |-> FALSE, id |-> 0]

User(u) == [is_authenticated |-> TRUE, id |-> u]

Identities == {Anonymous, User(1)}

Categories == {Absent, Param(<<"Gaming">>), Param(<<"gaming">>)}

Qtys == {Absent, Param(<<"0">>), Param(<<"1">>), Param(<<"9">>),
         Param(<<"-", "1">>), Param(<<"x">>)}

ByUsers == {Absent, Param(<<"true">>), Param(<<"True">>)}

ServerIds == {Absent, Param(<<>>), Param(<<"1">>), Param(<<"2">>),
              Param(<<"9">>), Param(<<"x">>)}

WithNumMembers == {Absent, Param(<<"True">>), Param(<<"true">>)}

Requests ==
    [category : Categories, qty : Qtys, by_user : ByUsers,
     by_serverid : ServerIds, with_num_members : WithNumMembers,
     user : Identities]

NoRequest ==
    [category |-> Absent, qty |-> Absent, by_user |-> Absent,
     by_serverid |-> Absent, with_num_members |-> Absent, user |-> Anonymous]

-----------------------------------------------------------------------------
(* QuerySet: a lazy query.  rows is what the query selects from the store  *)
(* when it runs; result_cache is what the object holds once it has been    *)
(* iterated.  A clone never carries the result cache of its origin.        *)

NoCache == [filled |-> FALSE, rows |-> <<>>]

Take(s, n) == SubSeq(s, 1, IF n < Len(s) THEN n ELSE Len(s))

\* queryset = Server.objects.all(): the object all instances start from.
ClassQueryset(dbv, cachev) ==
    [kind |-> "QuerySet", rows |-> dbv, is_sliced |-> FALSE,
     member_filter |-> 0, result_cache |-> cachev, is_class_attr |-> TRUE]

Clone(qs, rows) ==
    [kind |-> "QuerySet", rows |-> rows, is_sliced |-> qs.is_sliced,
     member_filter |-> qs.member_filter, result_cache |-> NoCache,
     is_class_attr |-> FALSE]

Returned(qs) == [exc |-> "", qs |-> qs]

Raised(e, qs) == [exc |-> e, qs |-> qs]

\* QuerySet.filter(...), kept being the rows of qs that meet the condition:
\* a plain list has no filter; a sliced query refuses.
QsFilter(qs, kept) ==
    IF qs.kind = "list" THEN Raised("AttributeError", qs)
    ELSE IF qs.is_sliced THEN Raised("TypeError", qs)
    ELSE Returned(Clone(qs, kept))

\* QuerySet[:stop]: negative bounds are refused; an object that was already
\* iterated answers with a slice of its cached list; otherwise a limited clone.
QsSlice(qs, stop) ==
    IF stop < 0 THEN Raised("ValueError", qs)
    ELSE IF qs.result_cache.filled
    THEN Returned([kind |-> "list", rows |-> Take(qs.result_cache.rows, stop),
                   is_sliced |-> FALSE, member_filter |-> 0,
                   result_cache |-> NoCache, is_class_attr |-> FALSE])
    ELSE Returned([Clone(qs, Take(qs.rows, stop)) EXCEPT !.is_sliced = TRUE])

\* Count("member") counts the rows of the member join; a preceding
\* filter(member=u) has narrowed that join to u.
CountMember(qs, row) ==
    IF qs.member_filter = 0 THEN Cardinality(row.member)
    ELSE Cardinality(row.member \cap {qs.member_filter})

QsAnnotate(qs) ==
    IF qs.kind = "list" THEN Raised("AttributeError", qs)
    ELSE Returned(Clone(qs,
            [i \in DOMAIN qs.rows |->
                [qs.rows[i] EXCEPT !.annotated = TRUE,
                                   !.num_members = CountMember(qs, qs.rows[i])]]))

\* The rows an iteration of the object yields.
Evaluate(qs) ==
    IF qs.kind = "QuerySet" /\ qs.result_cache.filled THEN qs.result_cache.rows
    ELSE qs.rows

QsExists(qs) == Evaluate(qs) # <<>>

-----------------------------------------------------------------------------
(* ServerListViewSet.list, step by step.  A step state is the instance's   *)
(* queryset, the exception raised so far ("" when none) with its detail,   *)
(* and the steps that ran.                                                 *)

ByUser(req) == IsLiteral(req.by_user, <<"true">>)

\* The flag read without regard to case.
WithNumAnyCase(req) ==
    IsLiteral(req.with_num_members, <<"True">>)
        \/ IsLiteral(req.with_num_members, <<"true">>)

WithNum(req) == IsLiteral(req.with_num_members, <<"True">>)

\* The gate with by_serverid left out of it.
AuthGateByUserOnly(req) == ByUser(req)

\* The gate read as (by_user or by_serverid) and not authenticated.
AuthGateGrouped(req) ==
    (ByUser(req) \/ Truthy(req.by_serverid)) /\ ~req.user.is_authenticated

\* by_user or by_serverid and not request.user.is_authenticated
AuthGate(req) ==
    ByUser(req) \/ (Truthy(req.by_serverid) /\ ~req.user.is_authenticated)

Start(dbv, cachev) ==
    [queryset |-> ClassQueryset(dbv, cachev), exc |-> "", detail |-> "",
     ran |-> <<>>]

Fail(st, e, d) == [st EXCEPT !.exc = e, !.detail = d]

\* self.queryset = <result of a QuerySet call>, or the exception it raised.
Assign(st, step, res) ==
    IF res.exc # "" THEN [st EXCEPT !.exc = res.exc, !.ran = Append(@, step)]
    ELSE [st EXCEPT !.queryset = res.qs, !.ran = Append(@, step)]

StepGate(st, req) ==
    IF AuthGate(req)
    THEN Fail(st, "AuthenticationFailed",
              "You must be logged in to perform this action")
    ELSE st

StepCategory(st, req) ==
    IF st.exc # "" \/ ~req.category.present THEN st
    ELSE LET Keep(row) == <<row.category>> = req.category.text
         IN  Assign(st, "category",
                    QsFilter(st.queryset, SelectSeq(st.queryset.rows, Keep)))

StepQty(st, req) ==
    IF st.exc # "" \/ ~req.qty.present THEN st
    ELSE IF ~IntParses(req.qty.text)
    THEN [Fail(st, "ValueError", "") EXCEPT !.ran = Append(@, "qty")]
    ELSE Assign(st, "qty", QsSlice(st.queryset, IntValue(req.qty.text)))

StepByUser(st, req) ==
    IF st.exc # "" \/ ~ByUser(req) THEN st
    ELSE LET Keep(row) == req.user.id \in row.member
             res == QsFilter(st.queryset, SelectSeq(st.queryset.rows, Keep))
         IN  Assign(st, "by_user",
                    IF res.exc # "" THEN res
                    ELSE Returned([res.qs EXCEPT !.member_filter = req.user.id]))

StepAnnotate(st, req) ==
    IF st.exc # "" \/ ~WithNum(req) THEN st
    ELSE Assign(st, "with_num_members", QsAnnotate(st.queryset))

\* self.queryset.filter is looked up before int(by_serverid) is evaluated.
StepServerId(st, req) ==
    IF st.exc # "" \/ ~req.by_serverid.present THEN st
    ELSE IF st.queryset.kind = "list"
    THEN [Fail(st, "AttributeError", "") EXCEPT !.ran = Append(@, "by_serverid")]
    ELSE IF ~IntParses(req.by_serverid.text)
    THEN [Fail(st, "ValidationError", "Invalid server id")
             EXCEPT !.ran = Append(@, "by_serverid")]
    ELSE LET Keep(row) == row.id = IntValue(req.by_serverid.text)
             st2 == Assign(st, "by_serverid",
                           QsFilter(st.queryset,
                                    SelectSeq(st.queryset.rows, Keep)))
         IN  IF st2.exc = "" /\ ~QsExists(st2.queryset)
             THEN Fail(st2, "ValidationError", "Server not found")
             ELSE st2

\* The handler with the gate placed after the category and qty steps.
StepsGateAfterQty(dbv, cachev, req) ==
    StepServerId(
      StepAnnotate(
        StepByUser(
          StepGate(
            StepQty(
              StepCategory(Start(dbv, cachev), req), req), req), req), req), req)

Steps(dbv, cachev, req) ==
    StepServerId(
      StepAnnotate(
        StepByUser(
          StepQty(
            StepCategory(
              StepGate(Start(dbv, cachev), req), req), req), req), req), req)

\* ServerSerializer(self.queryset, many=True, context={...}) and Response(...).
Respond(st, req) ==
    IF st.exc # ""
    THEN [exc |-> st.exc, detail |-> st.detail, data |-> <<>>,
          num_members |-> FALSE]
    ELSE [exc |-> "", detail |-> "", data |-> Evaluate(st.queryset),
          num_members |-> WithNum(req)]

\* Iterating the class attribute itself fills its result cache.
CacheAfter(st, cachev) ==
    IF st.exc = "" /\ st.queryset.kind = "QuerySet"
       /\ st.queryset.is_class_attr /\ ~cachev.filled
    THEN [filled |-> TRUE, rows |-> st.queryset.rows]
    ELSE cachev

NoResponse == [exc |-> "", detail |-> "", data |-> <<>>, num_members |-> FALSE]

-----------------------------------------------------------------------------
Ids(s) == {s[i].id : i \in DOMAIN s}

MaxId(s) == IF s = <<>> THEN 0 ELSE CHOOSE m \in Ids(s) : \A j \in Ids(s) : j <= m

Remove(s, i) == SubSeq(s, 1, i - 1) \o SubSeq(s, i + 1, Len(s))

Init ==
    /\ db = <<>>
    /\ cache = NoCache
    /\ pc = "idle"
    /\ request = NoRequest
    /\ response = NoResponse
    /\ ran = <<>>

\* A Server record is created by the owner of the store (ids grow).
CreateServer ==
    /\ pc = "idle"
    /\ MaxId(db) < MaxServers
    /\ db' = Append(db, Server(MaxId(db) + 1))
    /\ UNCHANGED <<cache, pc, request, response, ran>>

DeleteServer ==
    /\ pc = "idle"
    /\ \E i \in DOMAIN db : db' = Remove(db, i)
    /\ UNCHANGED <<cache, pc, request, response, ran>>

\* A GET arrives; the framework builds a fresh view instance for it.
Receive ==
    /\ pc = "idle"
    /\ \E req \in Requests : request' = req
    /\ pc' = "pending"
    /\ UNCHANGED <<db, cache, response, ran>>

List ==
    /\ pc = "pending"
    /\ LET st == Steps(db, cache, request)
       IN  /\ response' = Respond(st, request)
           /\ cache' = CacheAfter(st, cache)
           /\ ran' = st.ran
    /\ pc' = "done"
    /\ UNCHANGED <<db, request>>

\* The response is sent and the view instance is dropped.
Send ==
    /\ pc = "done"
    /\ pc' = "idle"
    /\ request' = NoRequest
    /\ response' = NoResponse
    /\ ran' = <<>>
    /\ UNCHANGED <<db, cache>>

Next == CreateServer \/ DeleteServer \/ Receive \/ List \/ Send

Spec == Init /\ [][Next]_vars

-----------------------------------------------------------------------------
(* The outcomes and the narrowing the properties speak of.                 *)

Done == pc = "done"

Succeeded == response.exc = ""

AuthenticationRequired == response.exc = "AuthenticationFailed"

InvalidParameter ==
    response.exc = "ValidationError" /\ response.detail = "Invalid server id"

NotFound ==
    response.exc = "ValidationError" /\ response.detail = "Server not found"

IsAnonymous == ~request.user.is_authenticated

ByUserTrue == request.by_user.present /\ request.by_user.text = <<"true">>

NonEmptyServerId ==
    request.by_serverid.present /\ request.by_serverid.text # <<>>

\* qty is absent or a non-negative integer.
QtyInRange ==
    ~request.qty.present
        \/ (IntParses(request.qty.text) /\ IntValue(request.qty.text) >= 0)

RowIds(rows) == [i \in DOMAIN rows |-> rows[i].id]

HasCategory(row) == <<row.category>> = request.category.text

HasRequester(row) == request.user.id \in row.member

\* The records of the store with the requested category, capped by qty.
Narrowed ==
    LET byCategory == IF request.category.present
                      THEN SelectSeq(db, HasCategory) ELSE db
    IN  IF request.qty.present
        THEN Take(byCategory, IntValue(request.qty.text)) ELSE byCategory

C2_PassesGateAsStated ==
    (Done /\ request.by_serverid.present /\ ~request.by_user.present
          /\ IsAnonymous)
        => (~AuthenticationRequired /\ ran # <<>>
            /\ ran[Len(ran)] = "by_serverid")

\* C2 (amended): a non-empty by_serverid with by_user absent and an anonymous
\* identity fails with AuthenticationRequired at the gate, and by_serverid is
\* never resolved against the collection.
C2_StoppedAtGate ==
    (Done /\ NonEmptyServerId /\ ~request.by_user.present /\ IsAnonymous)
        => (AuthenticationRequired /\ ran = <<>> /\ response.data = <<>>)

C2_Witness ==
    /\ Done
    /\ request.by_serverid = Param(<<"1">>)
    /\ ~request.by_user.present
    /\ IsAnonymous
    /\ 1 \in Ids(db)
    /\ AuthenticationRequired

\* C3: for an authenticated identity, category + qty + by_user=true succeeds
\* and returns the records of the category, capped by qty, that have the
\* requester among their members.
C3_SequentialNarrowing ==
    (Done /\ ~IsAnonymous /\ ByUserTrue /\ request.category.present
          /\ request.qty.present /\ QtyInRange
          /\ ~request.by_serverid.present)
        => (Succeeded
            /\ RowIds(response.data) = RowIds(SelectSeq(Narrowed, HasRequester)))

\* C4: without by_user and by_serverid the result is the records of the
\* store with the requested category (all of them when category is absent),
\* cut to the first qty of them, in the store's order.
C4_CategoryThenCap ==
    (Done /\ ~request.by_user.present /\ ~request.by_serverid.present
          /\ QtyInRange)
        => (Succeeded /\ RowIds(response.data) = RowIds(Narrowed))

\* C5: a request that carries only an integer qty, whatever its value, does
\* not fail: the result is a truncation of the collection.
C5_QtyNeverFails ==
    (Done /\ request.qty.present /\ IntParses(request.qty.text)
          /\ ~request.category.present /\ ~request.by_user.present
          /\ ~request.by_serverid.present
          /\ ~request.with_num_members.present)
        => (Succeeded /\ Len(response.data) <= Len(db))

\* C6: for an authenticated identity with by_user not true and by_serverid
\* present: a by_serverid that is no integer fails with InvalidParameter, one
\* that matches no record of the filtered collection fails with NotFound,
\* and otherwise the result is exactly the one record with that id.
C6_ServerIdResolves ==
    (Done /\ ~IsAnonymous /\ ~ByUserTrue /\ request.by_serverid.present
          /\ QtyInRange)
        => IF ~IntParses(request.by_serverid.text) THEN InvalidParameter
           ELSE IF IntValue(request.by_serverid.text) \notin Ids(Narrowed)
           THEN NotFound
           ELSE /\ Succeeded
                /\ RowIds(response.data)
                       = <<IntValue(request.by_serverid.text)>>

\* C7: on success the member-count flag handed to serialization is true
\* exactly when with_num_members is literally "True"; then every returned
\* record carries num_members, the number of its members; otherwise no
\* returned record is annotated.
C7_MemberCount ==
    (Done /\ Succeeded) =>
        /\ response.num_members <=>
               (request.with_num_members.present
                    /\ request.with_num_members.text = <<"True">>)
        /\ \A i \in DOMAIN response.data :
               IF response.num_members
               THEN /\ response.data[i].annotated
                    /\ response.data[i].num_members
                           = Cardinality(MembersOf(response.data[i].id))
               ELSE ~response.data[i].annotated

C7_Witness ==
    /\ Done
    /\ Succeeded
    /\ response.num_members
    /\ \E i \in DOMAIN response.data : response.data[i].num_members = 2

\* C8: whatever requests came before, the outcome of a request is the
\* outcome the same request has as the very first one on the same store.
C8_NoSharedState ==
    Done => response = Respond(Steps(db, NoCache, request), request)

C10_LookupOnNarrowed ==
    (Done /\ ~IsAnonymous /\ ~ByUserTrue /\ request.by_serverid.present
          /\ IntParses(request.by_serverid.text) /\ QtyInRange
          /\ (request.category.present \/ request.qty.present))
        => IF IntValue(request.by_serverid.text) \in Ids(Narrowed)
           THEN Succeeded /\ Len(response.data) = 1
                /\ response.data[1].id = IntValue(request.by_serverid.text)
           ELSE NotFound

====
